---- MODULE Spec2Model ----
(***************************************************************************)
(* Model of the procedural ambient audio engine of werewolves-ui           *)
(* (src/frontend/js/audio.js, class WerewolfPolyphonicAudio).              *)
(*                                                                         *)
(* The engine object's fields are the variables.  The browser's timer      *)
(* table (setInterval / clearInterval) and the closure variable of the     *)
(* melody generator are modelled next to them.  Every method of the class  *)
(* is an operator over a "world" record (the object's fields plus the      *)
(* timer table and what the call did to the output device), so that a      *)
(* method that calls another method is the composition of the operators.   *)
(* JavaScript runs every handler to completion, so one call or one timer   *)
(* callback is one action.                                                 *)
(*                                                                         *)
(* Numbers: gains are in thousandths, durations and periods in             *)
(* milliseconds, frequencies in hundredths of a hertz.                     *)
(*                                                                         *)
(* Two smaller programs of the repository are modelled beside the engine,  *)
(* each with its own variables and its own specification: the WebSocket    *)
(* wrapper WerewolfWS (src/unnamed/part_000) and the replay viewer of the  *)
(* leaderboard page (src/leaderboard_ui/js/leaderboard.js).                *)
(***************************************************************************)
EXTENDS Integers, Sequences, FiniteSets, TLC

VARIABLES
    config,            \* this.config: masterVolume, musicVolume, sfxVolume
    audioContext,      \* 0 = null, n > 0 = the n-th AudioContext constructed
    masterGain,        \* gain node or nullNode
    musicGain,         \* gain node or nullNode
    sfxGain,           \* gain node or nullNode
    isMusicPlaying,    \* BOOLEAN
    musicInterval,     \* 0 = null, else the id of the melody timer
    ambientIntervals,  \* sequence of timer ids, in push order
    timers,            \* the browser's live interval timers: set of records
    lastNoteIndex,     \* closure variable of startMelody, per live melody timer id
    nextTimerId,       \* next id setInterval hands out
    contexts,          \* number of AudioContext objects constructed so far
    listeners,         \* the {once: true} listeners still registered on document
    lastOp,            \* name of the operation that ran last
    emitted,           \* sound events the last operation started, in call order
    deviceCalls,       \* number of calls on the device (constructor, create*) by the last operation
    raised,            \* the last operation threw to its caller
    warned,            \* console.warn('Audio not available') has been printed
    drawn,             \* the Math.random() draws of the last operation
    now,               \* the clock (audioContext.currentTime and the timers' clock), in ms
    since,             \* per live timer id: when it was set or last fired
    voices,            \* the sound events that are sounding on the device
    elapsed,           \* for a timer callback: the time since its timer was set or last fired
    lastSoundAt,       \* when the device last started a sound event
    \* WerewolfWS (src/unnamed/part_000)
    socket,            \* this.socket: 0 = null, else the number of the current WebSocket
    sockets,           \* readyState of every WebSocket constructed so far, by number
    isConnected,       \* this.isConnected
    reconnectTimer,    \* this.reconnectTimer: 0 = null, else a timeout id
    timeouts,          \* the browser's pending timeouts: set of records
    nextTimeoutId,     \* next id setTimeout hands out
    wsLast,            \* what the last call or event of the wrapper did
    \* the replay viewer (src/leaderboard_ui/js/leaderboard.js)
    events,            \* replayState.events.length
    currentIndex,      \* replayState.currentIndex
    autoPlay,          \* replayState.autoPlay
    loops,             \* number of autoPlayLoop() calls suspended at their await
    replayLast         \* what the last handler of the viewer did

audioVars == <<config, audioContext, masterGain, musicGain, sfxGain, isMusicPlaying,
               musicInterval, ambientIntervals, timers, lastNoteIndex, nextTimerId,
               contexts, listeners, lastOp, emitted, deviceCalls, raised, warned, drawn,
               now, since, voices, elapsed, lastSoundAt>>

wsVars == <<socket, sockets, isConnected, reconnectTimer, timeouts, nextTimeoutId, wsLast>>

replayVars == <<events, currentIndex, autoPlay, loops, replayLast>>

vars == <<audioVars, wsVars, replayVars>>

----------------------------------------------------------------------------
(* Bounds of the model *)

\* setInterval hands out ids 1, 2, 3, ... without reuse; a call that would
\* hand out an id above MaxTimerId is not taken
MaxTimerId == 8

\* the direct-call specification takes a direct call of a generator's start
\* method only while it hands out timer ids up to MaxDirectTimerId
MaxDirectTimerId == 5

\* the wrapper specification constructs at most MaxSockets WebSockets
MaxSockets == 4

\* the viewer specification loads runs of at most MaxEvents events and takes a
\* click on the auto-play button only while fewer than MaxLoops loops sleep
MaxEvents == 5
MaxLoops == 3

\* the clocked specification stops the clock at MaxTime
MaxTime == 24000

\* the clocked specification lets the user act at the multiples of TimeStep
TimeStep == 2500

\* the volumes the gain specification draws the config from (0, 0.5 and 1)
GainGrid == {0, 500, 1000}

\* the model draws the unbounded real-valued random draws from these sets
MelodyPeriods == {3000, 6999}
MelodyDurations == {2000, 3999}
WindDurations == {4000, 6999}
CreakFrom == {10000, 14999}
CreakTo == {6000, 8999}

----------------------------------------------------------------------------
(* Constants of the program *)

masterVolume == 400
musicVolume == 150
sfxVolume == 300

baseFreq == 7342

phrygian == <<0, 1, 3, 5, 7, 8, 10>>

dronePeriod == 7500
windPeriod == 8000
creakPeriod == 12000

hoverFreq == 88000
clickFreq == 44000

nullNode == [id |-> "null", value |-> 0, out |-> "null"]

GainNode(id, value, out) == [id |-> id, value |-> value, out |-> out]

noDraw == [direction |-> 0, step |-> 0, octave |-> 0, harmony |-> FALSE,
           gate |-> FALSE, before |-> 0]

noFreq == [hz100 |-> 0, octave |-> 0, semitone |-> 0]

\* f * 2^octave * 2^(semitone/12), kept symbolic
Freq(hz100, octave, semitone) == [hz100 |-> hz100, octave |-> octave, semitone |-> semitone]

----------------------------------------------------------------------------
(* The world a method runs in: the object's fields, the timer table, and   *)
(* what the running call has done so far.  A method is an operator from    *)
(* world to world.  w.raised means an exception is propagating: every      *)
(* statement after the throwing one is skipped.                            *)

World == [config |-> config,
          audioContext |-> audioContext, masterGain |-> masterGain,
          musicGain |-> musicGain, sfxGain |-> sfxGain,
          isMusicPlaying |-> isMusicPlaying, musicInterval |-> musicInterval,
          ambientIntervals |-> ambientIntervals, timers |-> timers,
          lastNoteIndex |-> lastNoteIndex, nextTimerId |-> nextTimerId,
          contexts |-> contexts, warned |-> warned,
          emitted |-> <<>>, deviceCalls |-> 0, raised |-> FALSE]

\* window.setInterval(callback, period): the new timer's id is w.nextTimerId
setInterval(w, kind, period) ==
    [w EXCEPT !.timers = @ \cup {[id |-> w.nextTimerId, kind |-> kind, period |-> period]},
              !.nextTimerId = @ + 1]

\* window.clearInterval(id); the closure of a cleared callback is unreachable
clearInterval(w, id) ==
    [w EXCEPT !.timers = {t \in @ : t.id # id},
              !.lastNoteIndex = [i \in (DOMAIN @) \ {id} |-> @[i]]]

\* ids.forEach(id => clearInterval(id))
RECURSIVE clearEach(_, _)
clearEach(w, ids) ==
    IF ids = <<>> THEN w
    ELSE clearEach(clearInterval(w, Head(ids)), Tail(ids))

----------------------------------------------------------------------------
(* Synthesis primitives *)

\* every sound routed straight to the master gain
DestinationOr_AlwaysMaster(destination, master) == master

\* destination || this.masterGain
DestinationOr(destination, master) ==
    IF destination # nullNode THEN destination ELSE master

\* playNote without its first line, if (!this.audioContext) return
playNote_NoDeviceGuard(w, freq, duration, type, volume, destination) ==
    IF w.raised THEN w
    ELSE IF w.audioContext = 0
    THEN \* null.createOscillator() throws a TypeError
         [w EXCEPT !.raised = TRUE]
    ELSE LET dest == DestinationOr(destination, w.masterGain)
         IN IF dest = nullNode
            THEN [w EXCEPT !.deviceCalls = @ + 2, !.raised = TRUE]
            ELSE [w EXCEPT !.deviceCalls = @ + 2,
                           !.emitted = Append(@,
                               [kind |-> "note", freq |-> freq, slideTo |-> 0,
                                duration |-> duration, type |-> type,
                                volume |-> volume, floor |-> 1, cutoff |-> 0,
                                dest |-> dest.id, stop |-> duration])]

\* playNote without its last line, osc.stop(currentTime + duration)
playNote_NoStop(w, freq, duration, type, volume, destination) ==
    IF w.raised THEN w
    ELSE IF w.audioContext = 0 THEN w
    ELSE LET dest == DestinationOr(destination, w.masterGain)
         IN IF dest = nullNode
            THEN [w EXCEPT !.deviceCalls = @ + 2, !.raised = TRUE]
            ELSE [w EXCEPT !.deviceCalls = @ + 2,
                           !.emitted = Append(@,
                               [kind |-> "note", freq |-> freq, slideTo |-> 0,
                                duration |-> duration, type |-> type,
                                volume |-> volume, floor |-> 1, cutoff |-> 0,
                                dest |-> dest.id, stop |-> -1])]

playNote(w, freq, duration, type, volume, destination) ==
    IF w.raised THEN w
    ELSE IF w.audioContext = 0 THEN w
    ELSE LET dest == DestinationOr(destination, w.masterGain)
         IN IF dest = nullNode
            THEN \* gain.connect(null) throws a TypeError
                 [w EXCEPT !.deviceCalls = @ + 2, !.raised = TRUE]
            ELSE [w EXCEPT !.deviceCalls = @ + 2,
                           !.emitted = Append(@,
                               [kind |-> "note", freq |-> freq, slideTo |-> 0,
                                duration |-> duration, type |-> type,
                                volume |-> volume, floor |-> 1, cutoff |-> 0,
                                dest |-> dest.id, stop |-> duration])]

playFilteredNoise(w, duration, cutoff, volume, destination) ==
    IF w.raised THEN w
    ELSE IF w.audioContext = 0 THEN w
    ELSE LET dest == DestinationOr(destination, w.masterGain)
         IN IF dest = nullNode
            THEN [w EXCEPT !.deviceCalls = @ + 4, !.raised = TRUE]
            ELSE [w EXCEPT !.deviceCalls = @ + 4,
                           !.emitted = Append(@,
                               [kind |-> "noise", freq |-> noFreq, slideTo |-> 0,
                                duration |-> duration, type |-> "lowpass",
                                volume |-> volume, floor |-> 0, cutoff |-> cutoff,
                                dest |-> dest.id, stop |-> -1])]

\* playCreak without its last line, osc.stop(currentTime + 0.3)
playCreak_NoStop(w, fromHz100, toHz100) ==
    IF w.raised THEN w
    ELSE IF w.audioContext = 0 THEN w
    ELSE IF w.musicGain = nullNode
         THEN [w EXCEPT !.deviceCalls = @ + 2, !.raised = TRUE]
         ELSE [w EXCEPT !.deviceCalls = @ + 2,
                        !.emitted = Append(@,
                            [kind |-> "creak", freq |-> Freq(fromHz100, 0, 0),
                             slideTo |-> toHz100,
                             duration |-> 300, type |-> "sawtooth",
                             volume |-> 30, floor |-> 1, cutoff |-> 0,
                             dest |-> w.musicGain.id, stop |-> -1])]

playCreak(w, fromHz100, toHz100) ==
    IF w.raised THEN w
    ELSE IF w.audioContext = 0 THEN w
    ELSE IF w.musicGain = nullNode
         THEN [w EXCEPT !.deviceCalls = @ + 2, !.raised = TRUE]
         ELSE [w EXCEPT !.deviceCalls = @ + 2,
                        !.emitted = Append(@,
                            [kind |-> "creak", freq |-> Freq(fromHz100, 0, 0),
                             slideTo |-> toHz100,
                             duration |-> 300, type |-> "sawtooth",
                             volume |-> 30, floor |-> 1, cutoff |-> 0,
                             dest |-> w.musicGain.id, stop |-> 300])]

playWind(w, duration) == playFilteredNoise(w, duration, 30000, 50, w.musicGain)

\* the hover cue routed to the music bus
playHover_OnMusicBus(w) == playNote(w, Freq(hoverFreq, 0, 0), 30, "square", 20, w.musicGain)

playHover(w) == playNote(w, Freq(hoverFreq, 0, 0), 30, "square", 20, w.sfxGain)

playClick(w) == playNote(w, Freq(clickFreq, 0, 0), 50, "square", 50, w.sfxGain)

----------------------------------------------------------------------------
(* Generators *)

\* the drone chord with the gains of the fundamental and the fifth exchanged
playDrone_FifthLouder(w) ==
    LET w1 == playNote(w, Freq(baseFreq, 0, 0), 8000, "sine", 25, w.musicGain)
        w2 == playNote(w1, Freq((baseFreq * 3) \div 2, 0, 0), 8000, "sine", 40, w1.musicGain)
        w3 == playNote(w2, Freq(baseFreq * 2, 0, 0), 8000, "triangle", 15, w2.musicGain)
    IN playFilteredNoise(w3, 8000, 10000, 20, w3.musicGain)

\* the callback of the drone timer (it has no guard on isMusicPlaying)
playDrone(w) ==
    LET w1 == playNote(w, Freq(baseFreq, 0, 0), 8000, "sine", 40, w.musicGain)
        w2 == playNote(w1, Freq((baseFreq * 3) \div 2, 0, 0), 8000, "sine", 25, w1.musicGain)
        w3 == playNote(w2, Freq(baseFreq * 2, 0, 0), 8000, "triangle", 15, w2.musicGain)
    IN playFilteredNoise(w3, 8000, 10000, 20, w3.musicGain)

\* startDrone without the immediate call playDrone()
startDrone_NoImmediateChord(w) ==
    IF w.raised THEN w
    ELSE IF w.audioContext = 0 THEN w
    ELSE [setInterval(w, "drone", dronePeriod)
             EXCEPT !.ambientIntervals = Append(@, w.nextTimerId)]

\* startDrone whose timer's period exceeds the 8 s of the chord
startDrone_PeriodTooLong(w) ==
    IF w.raised THEN w
    ELSE IF w.audioContext = 0 THEN w
    ELSE LET w1 == playDrone(w)
             w2 == setInterval(w1, "drone", dronePeriod + 1000)
         IN IF w1.raised THEN w1
            ELSE [w2 EXCEPT !.ambientIntervals = Append(@, w1.nextTimerId)]

startDrone(w) ==
    IF w.raised THEN w
    ELSE IF w.audioContext = 0 THEN w
    ELSE LET w1 == playDrone(w)
             w2 == setInterval(w1, "drone", dronePeriod)
         IN IF w1.raised THEN w1
            ELSE [w2 EXCEPT !.ambientIntervals = Append(@, w1.nextTimerId)]

Max(a, b) == IF a > b THEN a ELSE b

Min(a, b) == IF a < b THEN a ELSE b

\* the advance wrapped around the scale instead of clamped
Advance_Wrap(index, direction, step) ==
    (index + (direction * step)) % Len(phrygian)

\* the advance clamped to scale.length instead of scale.length - 1
Advance_OffByOne(index, direction, step) ==
    Max(0, Min(Len(phrygian), index + (direction * step)))

\* Math.max(0, Math.min(scale.length - 1, lastNoteIndex + (direction * step)))
Advance(index, direction, step) ==
    Max(0, Min(Len(phrygian) - 1, index + (direction * step)))

\* the harmony offset clamped like the cursor instead of wrapped
HarmonyIndex_Clamp(index) == Min(Len(phrygian) - 1, index + 2)

\* (lastNoteIndex + 2) % scale.length
HarmonyIndex(index) == (index + 2) % Len(phrygian)

\* scale[i]; outside the array JavaScript yields undefined, written -1
ScaleAt(i) == IF i + 1 \in DOMAIN phrygian THEN phrygian[i + 1] ELSE -1

\* playMelodyNote whose harmony note is louder than the main note
playMelodyNote_LoudHarmony(w, id, direction, step, octave, duration, harmony) ==
    IF ~w.isMusicPlaying THEN w
    ELSE LET index == Advance(w.lastNoteIndex[id], direction, step)
             w1 == [w EXCEPT !.lastNoteIndex[id] = index]
             w2 == playNote(w1, Freq(baseFreq, octave, ScaleAt(index)),
                            duration, "triangle", 30, w1.musicGain)
         IN IF harmony
            THEN playNote(w2, Freq(baseFreq, octave, ScaleAt(HarmonyIndex(index))),
                          1500, "sine", 40, w2.musicGain)
            ELSE w2

\* playMelodyNote that schedules itself anew with a fresh draw of the period,
\* as a chain of setTimeout calls would: the other period of MelodyPeriods
playMelodyNote_Redraws(w, id, direction, step, octave, duration, harmony) ==
    IF ~w.isMusicPlaying THEN w
    ELSE LET index == Advance(w.lastNoteIndex[id], direction, step)
             w1 == [w EXCEPT !.lastNoteIndex[id] = index,
                             !.timers = {IF t.id = id
                                         THEN [t EXCEPT !.period = 9999 - @]
                                         ELSE t : t \in @}]
             w2 == playNote(w1, Freq(baseFreq, octave, ScaleAt(index)),
                            duration, "triangle", 30, w1.musicGain)
         IN IF harmony
            THEN playNote(w2, Freq(baseFreq, octave, ScaleAt(HarmonyIndex(index))),
                          1500, "sine", 20, w2.musicGain)
            ELSE w2

\* the callback of the melody timer whose id is id
playMelodyNote(w, id, direction, step, octave, duration, harmony) ==
    IF ~w.isMusicPlaying THEN w
    ELSE LET index == Advance(w.lastNoteIndex[id], direction, step)
             w1 == [w EXCEPT !.lastNoteIndex[id] = index]
             w2 == playNote(w1, Freq(baseFreq, octave, ScaleAt(index)),
                            duration, "triangle", 30, w1.musicGain)
         IN IF harmony
            THEN playNote(w2, Freq(baseFreq, octave, ScaleAt(HarmonyIndex(index))),
                          1500, "sine", 20, w2.musicGain)
            ELSE w2

\* startMelody whose period lacks the 3000 ms offset: Math.random() * 4000
startMelody_NoOffset(w, period) ==
    IF w.raised THEN w
    ELSE IF w.audioContext = 0 THEN w
    ELSE LET w1 == setInterval(w, "melody", period - 3000)
         IN [w1 EXCEPT !.musicInterval = w.nextTimerId,
                       !.lastNoteIndex = [i \in (DOMAIN @) \cup {w.nextTimerId} |->
                                             IF i = w.nextTimerId THEN 0 ELSE @[i]]]

\* startMelody whose closure begins at the top of the scale:
\* let lastNoteIndex = scale.length - 1
startMelody_StartsAtTop(w, period) ==
    IF w.raised THEN w
    ELSE IF w.audioContext = 0 THEN w
    ELSE LET w1 == setInterval(w, "melody", period)
         IN [w1 EXCEPT !.musicInterval = w.nextTimerId,
                       !.lastNoteIndex = [i \in (DOMAIN @) \cup {w.nextTimerId} |->
                                             IF i = w.nextTimerId THEN Len(phrygian) - 1
                                             ELSE @[i]]]

startMelody(w, period) ==
    IF w.raised THEN w
    ELSE IF w.audioContext = 0 THEN w
    ELSE LET w1 == setInterval(w, "melody", period)
         IN [w1 EXCEPT !.musicInterval = w.nextTimerId,
                       !.lastNoteIndex = [i \in (DOMAIN @) \cup {w.nextTimerId} |->
                                             IF i = w.nextTimerId THEN 0 ELSE @[i]]]

\* the callback of the wind timer; gate is Math.random() > 0.7
windTick(w, gate, duration) ==
    IF gate /\ w.isMusicPlaying THEN playWind(w, duration) ELSE w

\* the callback of the creak timer; gate is Math.random() > 0.8
creakTick(w, gate, fromHz100, toHz100) ==
    IF gate /\ w.isMusicPlaying THEN playCreak(w, fromHz100, toHz100) ELSE w

\* startAmbientEffects without  this.ambientIntervals.push(creakInterval)
startAmbientEffects_CreakNotRecorded(w) ==
    IF w.raised THEN w
    ELSE IF w.audioContext = 0 THEN w
    ELSE LET w1 == setInterval(w, "wind", windPeriod)
             w2 == [w1 EXCEPT !.ambientIntervals = Append(@, w.nextTimerId)]
         IN setInterval(w2, "creak", creakPeriod)

\* startAmbientEffects with the wind's period copied to the creak timer
startAmbientEffects_CreakEvery8s(w) ==
    IF w.raised THEN w
    ELSE IF w.audioContext = 0 THEN w
    ELSE LET w1 == setInterval(w, "wind", windPeriod)
             w2 == [w1 EXCEPT !.ambientIntervals = Append(@, w.nextTimerId)]
             w3 == setInterval(w2, "creak", windPeriod)
         IN [w3 EXCEPT !.ambientIntervals = Append(@, w2.nextTimerId)]

startAmbientEffects(w) ==
    IF w.raised THEN w
    ELSE IF w.audioContext = 0 THEN w
    ELSE LET w1 == setInterval(w, "wind", windPeriod)
             w2 == [w1 EXCEPT !.ambientIntervals = Append(@, w.nextTimerId)]
             w3 == setInterval(w2, "creak", creakPeriod)
         IN [w3 EXCEPT !.ambientIntervals = Append(@, w2.nextTimerId)]

----------------------------------------------------------------------------
(* Playback controller and lifecycle *)

\* startBackgroundMusic whose guard tests only the device
startBackgroundMusic_NoPlayingGuard(w, period) ==
    IF w.raised THEN w
    ELSE IF w.audioContext = 0 THEN w
    ELSE startAmbientEffects(startMelody(startDrone(
             [w EXCEPT !.isMusicPlaying = TRUE]), period))

\* startBackgroundMusic whose guard tests only the flag
startBackgroundMusic_NoDeviceGuard(w, period) ==
    IF w.raised THEN w
    ELSE IF w.isMusicPlaying THEN w
    ELSE startAmbientEffects(startMelody(startDrone(
             [w EXCEPT !.isMusicPlaying = TRUE]), period))

startBackgroundMusic(w, period) ==
    IF w.raised THEN w
    ELSE IF w.isMusicPlaying \/ w.audioContext = 0 THEN w
    ELSE startAmbientEffects(startMelody(startDrone(
             [w EXCEPT !.isMusicPlaying = TRUE]), period))

\* stopBackgroundMusic that clears only the ambientIntervals
stopBackgroundMusic_KeepsMelodyTimer(w) ==
    LET w1 == clearEach([w EXCEPT !.isMusicPlaying = FALSE], w.ambientIntervals)
    IN [w1 EXCEPT !.ambientIntervals = <<>>]

\* stopBackgroundMusic without  this.ambientIntervals = []
stopBackgroundMusic_KeepsHandles(w) ==
    LET w1 == clearEach([w EXCEPT !.isMusicPlaying = FALSE], w.ambientIntervals)
    IN IF w1.musicInterval # 0
       THEN [clearInterval(w1, w1.musicInterval) EXCEPT !.musicInterval = 0]
       ELSE w1

stopBackgroundMusic(w) ==
    LET w1 == clearEach([w EXCEPT !.isMusicPlaying = FALSE], w.ambientIntervals)
        w2 == [w1 EXCEPT !.ambientIntervals = <<>>]
    IN IF w2.musicInterval # 0
       THEN [clearInterval(w2, w2.musicInterval) EXCEPT !.musicInterval = 0]
       ELSE w2

\* the gain chain with the sfx bus connected to the output instead of the master gain
buildGainChain_SfxBypassesMaster(w) ==
    [w EXCEPT !.audioContext = w.contexts + 1,
              !.contexts = @ + 1,
              !.masterGain = GainNode("masterGain", w.config.masterVolume, "destination"),
              !.musicGain = GainNode("musicGain", w.config.musicVolume, "masterGain"),
              !.sfxGain = GainNode("sfxGain", w.config.sfxVolume, "destination"),
              !.deviceCalls = @ + 4]

\* what the try block of initAudioContext does when the constructor succeeds
buildGainChain(w) ==
    [w EXCEPT !.audioContext = w.contexts + 1,
              !.contexts = @ + 1,
              !.masterGain = GainNode("masterGain", w.config.masterVolume, "destination"),
              !.musicGain = GainNode("musicGain", w.config.musicVolume, "masterGain"),
              !.sfxGain = GainNode("sfxGain", w.config.sfxVolume, "masterGain"),
              !.deviceCalls = @ + 4]

\* catch (e) { console.warn('Audio not available:', e); }
catch(w) ==
    IF w.raised THEN [w EXCEPT !.raised = FALSE, !.warned = TRUE] ELSE w

\* initAudioContext without its first line, if (this.audioContext) return
initAudioContext_NoGuard(w, available, period) ==
    IF ~available THEN catch([w EXCEPT !.raised = TRUE])
    ELSE catch(startBackgroundMusic(buildGainChain(w), period))

\* available: new (window.AudioContext || window.webkitAudioContext)() does not throw
initAudioContext(w, available, period) ==
    IF w.audioContext # 0 THEN w
    ELSE IF ~available THEN catch([w EXCEPT !.raised = TRUE])
    ELSE catch(startBackgroundMusic(buildGainChain(w), period))

\* the try block of initAudioContext when the constructor succeeds and the
\* first createGain() throws: line 43 has assigned this.audioContext, the
\* three gain fields keep their null
buildContextOnly(w) ==
    [w EXCEPT !.audioContext = w.contexts + 1,
              !.contexts = @ + 1,
              !.deviceCalls = @ + 2,
              !.raised = TRUE]

\* initAudioContext on a device that is absent ("none"), complete ("full"),
\* or a legacy webkitAudioContext that constructs but has no createGain ("noGain")
initAudioContextOn(w, device, period) ==
    IF w.audioContext # 0 THEN w
    ELSE IF device = "noGain" THEN catch(buildContextOnly(w))
    ELSE initAudioContext(w, device = "full", period)

----------------------------------------------------------------------------
(* The state machine *)

\* the fields the constructor sets, the config apart
InitFields ==
    /\ audioContext = 0
    /\ masterGain = nullNode
    /\ musicGain = nullNode
    /\ sfxGain = nullNode
    /\ isMusicPlaying = FALSE
    /\ musicInterval = 0
    /\ ambientIntervals = <<>>
    /\ timers = {}
    /\ lastNoteIndex = <<>>
    /\ nextTimerId = 1
    /\ contexts = 0
    /\ listeners = {"click", "keydown"}
    /\ lastOp = "constructor"
    /\ emitted = <<>>
    /\ deviceCalls = 0
    /\ raised = FALSE
    /\ warned = FALSE
    /\ drawn = noDraw
    /\ now = 0
    /\ since = <<>>
    /\ voices = {}
    /\ elapsed = 0
    /\ lastSoundAt = 0

\* what a call of the wrapper leaves in wsLast when nothing has run yet
noWs == [op |-> "constructor", on |-> 0, closedOpen |-> FALSE, sentOn |-> "none"]

\* the fields the constructor of WerewolfWS sets; no timeout is pending
WsFields ==
    /\ socket = 0
    /\ sockets = <<>>
    /\ isConnected = FALSE
    /\ reconnectTimer = 0
    /\ timeouts = {}
    /\ nextTimeoutId = 1
    /\ wsLast = noWs

\* let replayState = { events: [], currentIndex: 0, autoPlay: false, ... }
ReplayFields ==
    /\ events = 0
    /\ currentIndex = 0
    /\ autoPlay = FALSE
    /\ loops = 0
    /\ replayLast = "script"

\* this.config as the constructor sets it
defaultConfig ==
    [masterVolume |-> masterVolume, musicVolume |-> musicVolume, sfxVolume |-> sfxVolume]

\* the state after  window.werewolfAudio = new WerewolfPolyphonicAudio()
Init ==
    /\ config = defaultConfig
    /\ InitFields
    /\ WsFields
    /\ ReplayFields

\* the call op has run to completion and left the world w
Effect(w, op, d) ==
    /\ w.nextTimerId - 1 <= MaxTimerId
    /\ config' = w.config
    /\ audioContext' = w.audioContext
    /\ masterGain' = w.masterGain
    /\ musicGain' = w.musicGain
    /\ sfxGain' = w.sfxGain
    /\ isMusicPlaying' = w.isMusicPlaying
    /\ musicInterval' = w.musicInterval
    /\ ambientIntervals' = w.ambientIntervals
    /\ timers' = w.timers
    /\ lastNoteIndex' = w.lastNoteIndex
    /\ nextTimerId' = w.nextTimerId
    /\ contexts' = w.contexts
    /\ warned' = w.warned
    /\ emitted' = w.emitted
    /\ deviceCalls' = w.deviceCalls
    /\ raised' = w.raised
    /\ lastOp' = op
    /\ drawn' = d
    /\ UNCHANGED <<wsVars, replayVars>>

\* Spec leaves the clock out: a live timer may fire at any moment
Commit(w, op, d) ==
    /\ Effect(w, op, d)
    /\ UNCHANGED <<now, since, voices, elapsed, lastSoundAt>>

\* the first click or keydown on the document runs its {once: true} listener
DocumentEvent ==
    \E type \in listeners, available \in BOOLEAN, period \in MelodyPeriods :
        /\ listeners' = listeners \ {type}
        /\ Commit(initAudioContext(World, available, period), "initAudioContext", noDraw)

\* the UI layer calls initialize()
InitAudioContext ==
    \E available \in BOOLEAN, period \in MelodyPeriods :
        /\ UNCHANGED listeners
        /\ Commit(initAudioContext(World, available, period), "initAudioContext", noDraw)

StartBackgroundMusic ==
    \E period \in MelodyPeriods :
        /\ UNCHANGED listeners
        /\ Commit(startBackgroundMusic(World, period), "startBackgroundMusic", noDraw)

StopBackgroundMusic ==
    /\ UNCHANGED listeners
    /\ Commit(stopBackgroundMusic(World), "stopBackgroundMusic", noDraw)

PlayHover ==
    /\ UNCHANGED listeners
    /\ Commit(playHover(World), "playHover", noDraw)

PlayClick ==
    /\ UNCHANGED listeners
    /\ Commit(playClick(World), "playClick", noDraw)

\* a live timer fires: the browser runs its callback
DroneTick ==
    \E t \in timers :
        /\ t.kind = "drone"
        /\ UNCHANGED listeners
        /\ Commit(playDrone(World), "playDrone", noDraw)

MelodyTick ==
    \E t \in timers, direction \in {1, -1}, step \in 0..2, octave \in 2..3,
       duration \in MelodyDurations, harmony \in BOOLEAN :
        /\ t.kind = "melody"
        /\ UNCHANGED listeners
        /\ Commit(playMelodyNote(World, t.id, direction, step, octave, duration, harmony),
                  "playMelodyNote",
                  [noDraw EXCEPT !.direction = direction, !.step = step,
                                 !.octave = octave, !.harmony = harmony,
                                 !.before = lastNoteIndex[t.id]])

WindTick ==
    \E t \in timers, gate \in BOOLEAN, duration \in WindDurations :
        /\ t.kind = "wind"
        /\ UNCHANGED listeners
        /\ Commit(windTick(World, gate, duration), "windTick",
                  [noDraw EXCEPT !.gate = gate])

CreakTick ==
    \E t \in timers, gate \in BOOLEAN, fromHz100 \in CreakFrom, toHz100 \in CreakTo :
        /\ t.kind = "creak"
        /\ UNCHANGED listeners
        /\ Commit(creakTick(World, gate, fromHz100, toHz100), "creakTick",
                  [noDraw EXCEPT !.gate = gate])

Next ==
    \/ DocumentEvent
    \/ InitAudioContext
    \/ StartBackgroundMusic
    \/ StopBackgroundMusic
    \/ PlayHover
    \/ PlayClick
    \/ DroneTick
    \/ MelodyTick
    \/ WindTick
    \/ CreakTick

Spec == Init /\ [][Next]_vars

----------------------------------------------------------------------------
(* Vocabulary of the properties *)

\* the engine object's fields and the timer table, without what the last call did
ProgVars == <<config, audioContext, masterGain, musicGain, sfxGain, isMusicPlaying,
              musicInterval, ambientIntervals, timers, lastNoteIndex,
              nextTimerId, contexts>>

TickOps == {"playDrone", "playMelodyNote", "windTick", "creakTick"}

\* the handles the engine has recorded
Recorded ==
    {ambientIntervals[i] : i \in DOMAIN ambientIntervals}
        \cup (IF musicInterval # 0 THEN {musicInterval} ELSE {})

\* the ids of the timers that are live in the browser
Live == {t.id : t \in timers}

Kinds == {t.kind : t \in timers}

\* the cursor of the running melody
Cursor == lastNoteIndex[musicInterval]

\* drawn.before + direction * step, cut to 0..6 without using the model's Advance
Clamped ==
    LET raw == drawn.before + (drawn.direction * drawn.step)
    IN IF raw < 0 THEN 0 ELSE IF raw > 6 THEN 6 ELSE raw

----------------------------------------------------------------------------
(* The gain specification: the engine with any volumes of the grid in its  *)
(* config, which is a public field a page can set before the first input.  *)
(* The pitch draws of the melody are fixed here: they do not bear on gain. *)

GainInit ==
    /\ config \in [masterVolume : GainGrid, musicVolume : GainGrid, sfxVolume : GainGrid]
    /\ InitFields
    /\ WsFields
    /\ ReplayFields

GainMelodyTick ==
    \E t \in timers, harmony \in BOOLEAN :
        /\ t.kind = "melody"
        /\ UNCHANGED listeners
        /\ Commit(playMelodyNote(World, t.id, 1, 1, 2, 2000, harmony),
                  "playMelodyNote",
                  [noDraw EXCEPT !.direction = 1, !.step = 1, !.octave = 2,
                                 !.harmony = harmony,
                                 !.before = lastNoteIndex[t.id]])

GainNext ==
    \/ DocumentEvent
    \/ StartBackgroundMusic
    \/ StopBackgroundMusic
    \/ PlayHover
    \/ PlayClick
    \/ DroneTick
    \/ GainMelodyTick

GainSpec == GainInit /\ [][GainNext]_vars

----------------------------------------------------------------------------
(* The legacy-device specification: the engine in a browser whose          *)
(* (window.AudioContext || window.webkitAudioContext) may also be a        *)
(* prefixed context without createGain, so that the try block of           *)
(* initAudioContext can fail after line 43 has assigned this.audioContext. *)
(* The pitch draws of the melody are fixed here.                           *)

LegacyDocumentEvent ==
    \E type \in listeners, device \in {"none", "noGain", "full"}, period \in MelodyPeriods :
        /\ listeners' = listeners \ {type}
        /\ Commit(initAudioContextOn(World, device, period), "initAudioContext", noDraw)

LegacyNext ==
    \/ LegacyDocumentEvent
    \/ StartBackgroundMusic
    \/ StopBackgroundMusic
    \/ PlayHover
    \/ PlayClick
    \/ DroneTick
    \/ GainMelodyTick
    \/ WindTick
    \/ CreakTick

LegacySpec == Init /\ [][LegacyNext]_vars

----------------------------------------------------------------------------
(* The direct-call specification: startDrone, startMelody and              *)
(* startAmbientEffects are public methods of window.werewolfAudio, and a   *)
(* page can call each of them by itself, whatever isMusicPlaying is.  The  *)
(* timers they set then tick like any other.                               *)
(* The pitch draws of the melody are fixed here.                           *)

StartDrone ==
    /\ nextTimerId <= MaxDirectTimerId
    /\ UNCHANGED listeners
    /\ Commit(startDrone(World), "startDrone", noDraw)

StartMelody ==
    \E period \in MelodyPeriods :
        /\ nextTimerId <= MaxDirectTimerId
        /\ UNCHANGED listeners
        /\ Commit(startMelody(World, period), "startMelody", noDraw)

StartAmbientEffects ==
    /\ nextTimerId <= MaxDirectTimerId
    /\ UNCHANGED listeners
    /\ Commit(startAmbientEffects(World), "startAmbientEffects", noDraw)

DirectNext ==
    \/ DocumentEvent
    \/ StopBackgroundMusic
    \/ StartDrone
    \/ StartMelody
    \/ StartAmbientEffects
    \/ DroneTick
    \/ GainMelodyTick
    \/ WindTick
    \/ CreakTick

DirectSpec == Init /\ [][DirectNext]_vars

----------------------------------------------------------------------------
(* The WebSocket wrapper, class WerewolfWS.  The browser's WebSockets are  *)
(* numbered in the order of their construction; sockets[i] is the          *)
(* readyState of the i-th.  The handlers connect() assigns to a socket are *)
(* arrow functions over this, so the handlers of a replaced socket still   *)
(* write the wrapper's fields.  The browser fires the open event of a      *)
(* CONNECTING socket and the close event of any socket that is not yet     *)
(* CLOSED (the server or the network closes it, or the closing handshake   *)
(* that close() began completes); the event sets the readyState and runs   *)
(* the handler in one task.  The listeners that on() registers are not     *)
(* modelled: trigger() calls no listener.                                  *)

\* setTimeout(() => this.connect(), 3000)
reconnectDelay == 3000

WsWorld == [socket |-> socket, sockets |-> sockets, isConnected |-> isConnected,
            reconnectTimer |-> reconnectTimer, timeouts |-> timeouts,
            nextTimeoutId |-> nextTimeoutId, last |-> noWs]

\* window.setTimeout(callback, delay): the new timeout's id is ww.nextTimeoutId
setTimeout(ww, delay) ==
    [ww EXCEPT !.timeouts = @ \cup {[id |-> ww.nextTimeoutId, delay |-> delay]},
               !.nextTimeoutId = @ + 1]

\* window.clearTimeout(id); null or the id of a timeout that has run clears nothing
clearTimeout(ww, id) ==
    [ww EXCEPT !.timeouts = {t \in @ : t.id # id}]

\* WebSocket.close() on the i-th socket: the closing handshake begins; the
\* close event comes later.  On a CLOSING or CLOSED socket it does nothing.
close(ww, i) ==
    IF ww.sockets[i] \in {"CONNECTING", "OPEN"}
    THEN [ww EXCEPT !.sockets[i] = "CLOSING"]
    ELSE ww

connect(ww) ==
    LET wasOpen == ww.socket # 0 /\ ww.sockets[ww.socket] = "OPEN"
        w1 == IF ww.socket # 0 THEN close(ww, ww.socket) ELSE ww
    IN [w1 EXCEPT !.sockets = Append(@, "CONNECTING"),
                  !.socket = Len(w1.sockets) + 1,
                  !.last.on = Len(w1.sockets) + 1,
                  !.last.closedOpen = wasOpen]

\* this.socket.onopen
onopen(ww) ==
    [ww EXCEPT !.isConnected = TRUE]

\* this.socket.onclose
onclose(ww) ==
    LET w1 == clearTimeout([ww EXCEPT !.isConnected = FALSE], ww.reconnectTimer)
    IN [setTimeout(w1, reconnectDelay) EXCEPT !.reconnectTimer = w1.nextTimeoutId]

\* send(type, payload); last.sentOn is the readyState of the socket whose send
\* method was called, "none" when it was not called
send(ww) ==
    IF ww.isConnected
    THEN [ww EXCEPT !.last.on = ww.socket, !.last.sentOn = ww.sockets[ww.socket]]
    ELSE ww

\* the call or event op has run to completion and left the wrapper as ww
WsEffect(ww, op) ==
    /\ socket' = ww.socket
    /\ sockets' = ww.sockets
    /\ isConnected' = ww.isConnected
    /\ reconnectTimer' = ww.reconnectTimer
    /\ timeouts' = ww.timeouts
    /\ nextTimeoutId' = ww.nextTimeoutId
    /\ wsLast' = [ww.last EXCEPT !.op = op]

\* the page calls window.werewolfWS.connect()
WsConnect ==
    /\ Len(sockets) < MaxSockets
    /\ WsEffect(connect(WsWorld), "connect")
    /\ UNCHANGED <<audioVars, replayVars>>

\* the open event of the i-th socket
SocketOpen ==
    \E i \in DOMAIN sockets :
        /\ sockets[i] = "CONNECTING"
        /\ WsEffect(onopen([WsWorld EXCEPT !.sockets[i] = "OPEN", !.last.on = i]), "onopen")
        /\ UNCHANGED <<audioVars, replayVars>>

\* the close event of the i-th socket
SocketClose ==
    \E i \in DOMAIN sockets :
        /\ sockets[i] # "CLOSED"
        /\ WsEffect(onclose([WsWorld EXCEPT !.sockets[i] = "CLOSED", !.last.on = i]), "onclose")
        /\ UNCHANGED <<audioVars, replayVars>>

\* a pending timeout runs its callback, () => this.connect()
ReconnectFire ==
    \E t \in timeouts :
        /\ Len(sockets) < MaxSockets
        /\ WsEffect(connect([WsWorld EXCEPT !.timeouts = @ \ {t}]), "reconnect")
        /\ UNCHANGED <<audioVars, replayVars>>

\* the page calls window.werewolfWS.send(type, payload)
WsSend ==
    /\ WsEffect(send(WsWorld), "send")
    /\ UNCHANGED <<audioVars, replayVars>>

WsNext ==
    \/ WsConnect
    \/ SocketOpen
    \/ SocketClose
    \/ ReconnectFire
    \/ WsSend

WsSpec == Init /\ [][WsNext]_vars

----------------------------------------------------------------------------
(* The replay viewer of the leaderboard page: stepReplay, toggleAutoPlay   *)
(* and autoPlayLoop over replayState.  Of the event list only its length   *)
(* matters to them.  An autoPlayLoop() call runs up to its await in the    *)
(* task that called it and then sleeps on a 3 s timeout; each time the     *)
(* timeout runs out it tests the loop condition again.  loops counts the   *)
(* calls that are asleep.                                                  *)

ReplayState == [events |-> events, currentIndex |-> currentIndex,
                autoPlay |-> autoPlay, loops |-> loops]

stepReplay(r, delta) ==
    IF r.events = 0 THEN r
    ELSE [r EXCEPT !.currentIndex = Max(0, Min(r.events - 1, @ + delta))]

\* one test of the while condition of autoPlayLoop by a call that is not
\* counted in r.loops: it steps and goes to sleep, or it returns
autoPlayLoop(r) ==
    IF r.autoPlay /\ r.currentIndex < r.events - 1
    THEN [stepReplay(r, 1) EXCEPT !.loops = @ + 1]
    ELSE r

toggleAutoPlay(r) ==
    LET r1 == [r EXCEPT !.autoPlay = ~@]
    IN IF r1.autoPlay THEN autoPlayLoop(r1) ELSE r1

\* the handler op has run to completion and left replayState as r
ReplayEffect(r, op) ==
    /\ events' = r.events
    /\ currentIndex' = r.currentIndex
    /\ autoPlay' = r.autoPlay
    /\ loops' = r.loops
    /\ replayLast' = op

\* renderIArena(runId) has fetched a run of n events; it binds the buttons
RenderIArena ==
    \E n \in 0..MaxEvents :
        /\ ReplayEffect([ReplayState EXCEPT !.events = n, !.currentIndex = 0], "renderIArena")
        /\ UNCHANGED <<audioVars, wsVars>>

\* a click on ia-btn-next or ia-btn-prev
StepReplay ==
    \E delta \in {1, -1} :
        /\ replayLast # "script"
        /\ ReplayEffect(stepReplay(ReplayState, delta), "stepReplay")
        /\ UNCHANGED <<audioVars, wsVars>>

\* a click on ia-btn-auto
ToggleAutoPlay ==
    /\ replayLast # "script"
    /\ loops < MaxLoops
    /\ ReplayEffect(toggleAutoPlay(ReplayState), "toggleAutoPlay")
    /\ UNCHANGED <<audioVars, wsVars>>

\* the 3 s timeout of one sleeping autoPlayLoop() call runs out
LoopResume ==
    /\ loops > 0
    /\ ReplayEffect(autoPlayLoop([ReplayState EXCEPT !.loops = @ - 1]), "autoPlayLoop")
    /\ UNCHANGED <<audioVars, wsVars>>

ReplayNext ==
    \/ RenderIArena
    \/ StepReplay
    \/ ToggleAutoPlay
    \/ LoopResume

ReplaySpec == Init /\ [][ReplayNext]_vars

\* the gain node of the engine that has the id id
Node(id) ==
    CASE id = "masterGain" -> masterGain
      [] id = "musicGain" -> musicGain
      [] id = "sfxGain" -> sfxGain
      [] OTHER -> nullNode

\* the gain a signal fed into the node id has at the output: the device
\* multiplies by the gain of every node on the way.  In units of 1000^-n,
\* for a way of at most n nodes; 0 if the way does not reach the output
\* within n nodes.
RECURSIVE PathGain(_, _)
PathGain(id, n) ==
    IF id = "destination" THEN 1000 ^ n
    ELSE IF n = 0 \/ Node(id) = nullNode THEN 0
    ELSE Node(id).value * PathGain(Node(id).out, n - 1)

----------------------------------------------------------------------------
(* The clocked state machine.  The clock stands still while a handler      *)
(* runs; an interval timer fires exactly one period after it was set or    *)
(* last fired; a started sound sounds until its scheduled stop (an         *)
(* oscillator) or the end of its buffer (a noise source), and for ever if  *)
(* it has neither.  The user acts at the multiples of TimeStep.             *)
(* The pitch draws of the melody are fixed here: they do not bear on time. *)

Never == -1

\* the sound the device plays for the event e started at time at by the call op
Voice(e, op, at) ==
    [src |-> op, kind |-> e.kind, volume |-> e.volume, dest |-> e.dest,
     onset |-> at,
     end |-> IF e.kind = "noise" THEN at + e.duration
             ELSE IF e.stop >= 0 THEN at + e.stop
             ELSE Never]

\* when the live timer t fires next
Due(t) == since[t.id] + t.period

\* the call op has run to completion at the instant now; fired is the id of
\* the timer whose callback it was, 0 for a call of the user
TimedCommit(w, op, d, fired) ==
    /\ Effect(w, op, d)
    /\ now' = now
    /\ since' = [id \in {t.id : t \in w.timers} |->
                    IF id = fired \/ id \notin DOMAIN since THEN now ELSE since[id]]
    /\ voices' = voices \cup {Voice(w.emitted[i], op, now) : i \in DOMAIN w.emitted}
    /\ elapsed' = IF fired # 0 THEN now - since[fired] ELSE 0
    /\ lastSoundAt' = IF w.emitted # <<>> THEN now ELSE lastSoundAt

\* an instant at which the user acts
UserInstant == now % TimeStep = 0

TimedDocumentEvent ==
    \E type \in listeners, available \in BOOLEAN, period \in MelodyPeriods :
        /\ UserInstant
        /\ listeners' = listeners \ {type}
        /\ TimedCommit(initAudioContext(World, available, period),
                       "initAudioContext", noDraw, 0)

TimedStart ==
    \E period \in MelodyPeriods :
        /\ UserInstant
        /\ UNCHANGED listeners
        /\ TimedCommit(startBackgroundMusic(World, period),
                       "startBackgroundMusic", noDraw, 0)

TimedStop ==
    /\ UserInstant
    /\ UNCHANGED listeners
    /\ TimedCommit(stopBackgroundMusic(World), "stopBackgroundMusic", noDraw, 0)

TimedHover ==
    /\ UserInstant
    /\ UNCHANGED listeners
    /\ TimedCommit(playHover(World), "playHover", noDraw, 0)

TimedClick ==
    /\ UserInstant
    /\ UNCHANGED listeners
    /\ TimedCommit(playClick(World), "playClick", noDraw, 0)

TimedDroneTick ==
    \E t \in timers :
        /\ t.kind = "drone"
        /\ now = Due(t)
        /\ UNCHANGED listeners
        /\ TimedCommit(playDrone(World), "playDrone", noDraw, t.id)

TimedMelodyTick ==
    \E t \in timers, duration \in MelodyDurations, harmony \in BOOLEAN :
        /\ t.kind = "melody"
        /\ now = Due(t)
        /\ UNCHANGED listeners
        /\ TimedCommit(playMelodyNote(World, t.id, 1, 1, 2, duration, harmony),
                       "playMelodyNote",
                       [noDraw EXCEPT !.direction = 1, !.step = 1, !.octave = 2,
                                      !.harmony = harmony,
                                      !.before = lastNoteIndex[t.id]],
                       t.id)

TimedWindTick ==
    \E t \in timers, gate \in BOOLEAN, duration \in WindDurations :
        /\ t.kind = "wind"
        /\ now = Due(t)
        /\ UNCHANGED listeners
        /\ TimedCommit(windTick(World, gate, duration), "windTick",
                       [noDraw EXCEPT !.gate = gate], t.id)

TimedCreakTick ==
    \E t \in timers, gate \in BOOLEAN :
        /\ t.kind = "creak"
        /\ now = Due(t)
        /\ UNCHANGED listeners
        /\ TimedCommit(creakTick(World, gate, 10000, 6000), "creakTick",
                       [noDraw EXCEPT !.gate = gate], t.id)

\* the instants after now the clock can stop at
Instants ==
    {Due(t) : t \in timers} \cup {((now \div TimeStep) + 1) * TimeStep}

\* time passes up to the next instant; no timer is overdue
Pass ==
    \E n \in Instants :
        /\ n > now
        /\ n <= MaxTime
        /\ \A t \in timers : now < Due(t)
        /\ \A m \in Instants : m > now => n <= m
        /\ now' = n
        /\ voices' = {v \in voices : v.end = Never \/ v.end > n}
        /\ lastOp' = "pass"
        /\ emitted' = <<>>
        /\ deviceCalls' = 0
        /\ raised' = FALSE
        /\ drawn' = noDraw
        /\ elapsed' = 0
        /\ UNCHANGED <<ProgVars, listeners, warned, since, lastSoundAt, wsVars, replayVars>>

TimedNext ==
    \/ TimedDocumentEvent
    \/ TimedStart
    \/ TimedStop
    \/ TimedHover
    \/ TimedClick
    \/ TimedDroneTick
    \/ TimedMelodyTick
    \/ TimedWindTick
    \/ TimedCreakTick
    \/ Pass

TimedSpec == Init /\ [][TimedNext]_vars

----------------------------------------------------------------------------
(* C1: once the music is not playing (after stopBackgroundMusic returned,   *)
(* until the next start) no timer is live, no generator tick runs, and the *)
(* only calls that emit a sound on the music bus are the ones that start   *)
(* the music again.                                                        *)
C1_NoTickAfterStop ==
    [][~isMusicPlaying =>
          /\ timers = {}
          /\ lastOp' \notin TickOps
          /\ (lastOp' \notin {"startBackgroundMusic", "initAudioContext"} =>
                 \A i \in DOMAIN emitted' : emitted'[i].dest = "sfxGain")]_vars

C1_Witness ==
    /\ lastOp = "stopBackgroundMusic"
    /\ audioContext # 0
    /\ nextTimerId > 1
    /\ ~isMusicPlaying
    /\ timers = {}

(* C2: in every state the recorded handles (ambientIntervals and           *)
(* musicInterval) are exactly the live timers, each recorded once, and     *)
(* right after stopBackgroundMusic both are empty.                         *)
C2_HandlesMirrorTimers ==
    /\ Recorded = Live
    /\ Cardinality(Live) = Cardinality(timers)
    /\ Len(ambientIntervals) + (IF musicInterval # 0 THEN 1 ELSE 0) = Cardinality(Live)
    /\ (lastOp = "stopBackgroundMusic" =>
           /\ ambientIntervals = <<>>
           /\ musicInterval = 0
           /\ timers = {})

C2_Witness ==
    /\ isMusicPlaying
    /\ nextTimerId > 5
    /\ Cardinality(timers) = 4
    /\ Recorded = Live

(* C3: startBackgroundMusic while the music is playing changes nothing: no *)
(* field, no timer, no sound event, no device call.                        *)
C3_StartIdempotent ==
    [][(isMusicPlaying /\ lastOp' = "startBackgroundMusic") =>
          /\ UNCHANGED ProgVars
          /\ emitted' = <<>>
          /\ deviceCalls' = 0]_vars

C3_Witness ==
    /\ lastOp = "startBackgroundMusic"
    /\ isMusicPlaying
    /\ Kinds = {"drone", "melody", "wind", "creak"}
    /\ Cardinality(timers) = 4
    /\ emitted = <<>>

(* C4: initAudioContext on an engine that has its device changes nothing   *)
(* (no device, no gain node, no timer, stopped music stays stopped); the   *)
(* call that builds the device builds exactly one, with the three gain     *)
(* nodes, and leaves the music playing on four timers.                     *)
C4_InitIdempotentAutoStart ==
    [][lastOp' = "initAudioContext" =>
          IF audioContext # 0
          THEN /\ UNCHANGED ProgVars
               /\ emitted' = <<>>
               /\ deviceCalls' = 0
          ELSE audioContext' # 0 =>
                 /\ contexts' = 1
                 /\ masterGain' # nullNode
                 /\ musicGain' # nullNode
                 /\ sfxGain' # nullNode
                 /\ isMusicPlaying'
                 /\ Cardinality(timers') = 4]_vars

C4_Witness ==
    /\ lastOp = "initAudioContext"
    /\ audioContext # 0
    /\ contexts = 1
    /\ ~isMusicPlaying
    /\ timers = {}

(* C5: once a construction of the device has failed (the warning has been  *)
(* printed) no later call constructs a device, makes a device call,        *)
(* creates a timer or sets isMusicPlaying.                                 *)
C5_DisabledForever ==
    [][warned =>
          /\ audioContext' = 0
          /\ contexts' = contexts
          /\ deviceCalls' = 0
          /\ timers' = {}
          /\ ~isMusicPlaying']_vars

(* C6: while the engine has no device, no call raises to its caller and no *)
(* call touches a device or starts a sound; initAudioContext never raises. *)
C6_AbsentDeviceIsSilent ==
    /\ (audioContext = 0 => (~raised /\ deviceCalls = 0 /\ emitted = <<>> /\ timers = {}))
    /\ (lastOp = "initAudioContext" => ~raised)

C6_Witness ==
    /\ warned
    /\ audioContext = 0
    /\ lastOp = "playHover"
    /\ ~raised
    /\ deviceCalls = 0

(* C7: the lifecycle.  isMusicPlaying holds only with a device; a device,  *)
(* once present, is never replaced or removed; startBackgroundMusic        *)
(* without a device changes nothing; on a stopped engine with a device it  *)
(* sets isMusicPlaying; stopBackgroundMusic always clears it.              *)
C7_Lifecycle ==
    [][/\ isMusicPlaying => audioContext # 0
       /\ isMusicPlaying' => audioContext' # 0
       /\ audioContext # 0 => audioContext' = audioContext
       /\ (lastOp' = "startBackgroundMusic" /\ audioContext = 0) =>
              (UNCHANGED ProgVars /\ emitted' = <<>>)
       /\ (lastOp' = "startBackgroundMusic" /\ audioContext # 0) => isMusicPlaying'
       /\ lastOp' = "stopBackgroundMusic" =>
              (~isMusicPlaying' /\ audioContext' = audioContext)]_vars

C7_Witness ==
    /\ lastOp = "startBackgroundMusic"
    /\ isMusicPlaying
    /\ nextTimerId > 5
    /\ emitted # <<>>

(* C8: the cursor of every melody is within 0..6, and a melody tick leaves *)
(* it at before + direction * step cut to the nearest end of that range.   *)
C8_CursorClamped ==
    /\ \A id \in DOMAIN lastNoteIndex : lastNoteIndex[id] \in 0..(Len(phrygian) - 1)
    /\ (lastOp = "playMelodyNote" /\ musicInterval \in DOMAIN lastNoteIndex) =>
           Cursor = Clamped

C8_Witness ==
    /\ lastOp = "playMelodyNote"
    /\ drawn.before = 1
    /\ drawn.direction = -1
    /\ drawn.step = 2
    /\ Cursor = 0

(* C9: an advance with direction +1 and step 2 takes the cursor from 0 to  *)
(* 2, from 2 to 4, from 4 to 6 and from 6 to 6; from 6 every advance with  *)
(* direction +1 leaves it at 6.                                            *)
C9_SaturatesAtTop ==
    (lastOp = "playMelodyNote" /\ drawn.direction = 1
        /\ musicInterval \in DOMAIN lastNoteIndex) =>
        /\ (drawn.step = 2 /\ drawn.before = 0) => Cursor = 2
        /\ (drawn.step = 2 /\ drawn.before = 2) => Cursor = 4
        /\ (drawn.step = 2 /\ drawn.before = 4) => Cursor = 6
        /\ drawn.before = 6 => Cursor = 6

C9_Witness ==
    /\ lastOp = "playMelodyNote"
    /\ drawn.direction = 1
    /\ drawn.step = 2
    /\ drawn.before = 6
    /\ Cursor = 6

(* C10: a melody tick that draws the harmony plays, as its second note,    *)
(* the scale degree (cursor + 2) mod 7 of the cursor the tick has advanced *)
(* to: degree 0 for cursor 5 and degree 1 for cursor 6; the cursor is the  *)
(* advanced one, the harmony does not move it.                             *)
C10_HarmonyWraps ==
    (lastOp = "playMelodyNote" /\ drawn.harmony
        /\ musicInterval \in DOMAIN lastNoteIndex) =>
        /\ Len(emitted) = 2
        /\ Cursor = Clamped
        /\ ((Cursor + 2) % 7) + 1 \in DOMAIN phrygian
        /\ emitted[2].freq.semitone = phrygian[((Cursor + 2) % 7) + 1]
        /\ emitted[2].freq.octave = emitted[1].freq.octave
        /\ Cursor = 5 => emitted[2].freq.semitone = 0
        /\ Cursor = 6 => emitted[2].freq.semitone = 1

C10_Witness ==
    /\ lastOp = "playMelodyNote"
    /\ drawn.harmony
    /\ Cursor = 6
    /\ Len(emitted) = 2
    /\ emitted[2].freq.semitone = 1

(* C11: every note the engine lets the device create is started with its   *)
(* stop scheduled, in the same call, at onset + duration: each note event  *)
(* carries a stop offset equal to its duration, and a call that only plays *)
(* notes has created exactly one oscillator and one gain per started note. *)
C11_NoteStopScheduled ==
    /\ \A i \in DOMAIN emitted :
           emitted[i].kind = "note" =>
               /\ emitted[i].stop >= 0
               /\ emitted[i].stop <= emitted[i].duration
               /\ emitted[i].stop = emitted[i].duration
    /\ lastOp \in {"playHover", "playClick", "playMelodyNote"} =>
           deviceCalls = 2 * Len(emitted)

C11_Witness ==
    /\ lastOp = "playMelodyNote"
    /\ Len(emitted) = 2
    /\ emitted[1].kind = "note"
    /\ emitted[1].stop = emitted[1].duration
    /\ emitted[2].stop = 1500

(* C15: on an engine that has its device, playing or stopped, playHover    *)
(* and playClick each start exactly one note on the sfx bus and change no  *)
(* field, no recorded handle and no timer.                                 *)
C15_CuesAreOneShots ==
    [][(lastOp' \in {"playHover", "playClick"} /\ audioContext # 0) =>
          /\ Len(emitted') = 1
          /\ emitted'[1].kind = "note"
          /\ emitted'[1].dest = "sfxGain"
          /\ UNCHANGED ProgVars]_vars

C15_Witness ==
    /\ lastOp = "playHover"
    /\ audioContext # 0
    /\ ~isMusicPlaying
    /\ Len(emitted) = 1
    /\ emitted[1].dest = "sfxGain"

(* C16: every sound event is connected to a bus gain, never to the master  *)
(* gain or the output: the generators' events to the music bus, the cues'  *)
(* events to the sfx bus; each bus feeds the master gain and the master    *)
(* gain feeds the output.                                                  *)
C16_RoutedThroughOneBus ==
    /\ \A i \in DOMAIN emitted :
           /\ emitted[i].dest \in {"musicGain", "sfxGain"}
           /\ emitted[i].dest = "musicGain" => musicGain.out = "masterGain"
           /\ emitted[i].dest = "sfxGain" => sfxGain.out = "masterGain"
           /\ masterGain.out = "destination"
           /\ (lastOp \in {"playHover", "playClick"}) = (emitted[i].dest = "sfxGain")
    /\ audioContext # 0 =>
           /\ musicGain.id = "musicGain"
           /\ sfxGain.id = "sfxGain"
           /\ masterGain.id = "masterGain"

C16_Witness ==
    /\ lastOp = "creakTick"
    /\ Len(emitted) = 1
    /\ emitted[1].dest = "musicGain"
    /\ musicGain.out = "masterGain"
    /\ masterGain.out = "destination"

----------------------------------------------------------------------------
(* Vocabulary of the clocked properties *)

\* the calls that play a drone chord
DroneOps == {"playDrone", "startBackgroundMusic", "initAudioContext"}

\* the four layers of the drone chord started at time o are all sounding
ChordSounding(o) ==
    \A vol \in {40, 25, 15, 20} :
        \E v \in voices :
            /\ v.src \in DroneOps
            /\ v.onset = o
            /\ v.volume = vol
            /\ v.end = o + 8000
            /\ v.kind = (IF vol = 20 THEN "noise" ELSE "note")

(* C12: every sounding event has an end of its own, at most 8 s after its  *)
(* onset, and is gone once the clock reaches that end; so 8 s after the    *)
(* last sound was started (after a stop with no later start or cue)        *)
(* nothing sounds, and it stays so until a sound is started again.         *)
C12_VoicesEndByThemselves ==
    /\ \A v \in voices :
           /\ v.end # Never
           /\ v.onset <= now
           /\ now < v.end
           /\ v.end - v.onset <= 8000
    /\ now >= lastSoundAt + 8000 => voices = {}

C12_Witness ==
    /\ audioContext # 0
    /\ ~isMusicPlaying
    /\ lastSoundAt >= 12000
    /\ now >= lastSoundAt + 8000
    /\ voices = {}

(* C13: the call that starts the playback (isMusicPlaying goes from false  *)
(* to true) starts, at that very instant and before any timer has fired,   *)
(* exactly one drone chord: three notes and one noise layer.               *)
C13_ChordAtStart ==
    [][(~isMusicPlaying /\ isMusicPlaying') =>
          /\ now' = now
          /\ lastOp' \in {"startBackgroundMusic", "initAudioContext"}
          /\ Len(emitted') = 4
          /\ \A i \in 1..3 : emitted'[i].kind = "note"
          /\ emitted'[4].kind = "noise"
          /\ \A i \in 1..4 : Voice(emitted'[i], lastOp', now) \in voices'
          /\ \A t \in timers' : since'[t.id] = now /\ Due(t)' >= now + 3000]_vars

C13_Witness ==
    /\ lastOp = "startBackgroundMusic"
    /\ isMusicPlaying
    /\ now > 0
    /\ Len(emitted) = 4
    /\ ChordSounding(now)

(* C14: while isMusicPlaying holds a complete drone chord is sounding at   *)
(* every instant; each chord lasts 8 s, and when the drone timer fires the *)
(* chord started 7.5 s before is still sounding, for another 0.5 s.        *)
C14_DroneGapFree ==
    /\ isMusicPlaying => \E v \in voices : ChordSounding(v.onset)
    /\ (lastOp = "playDrone" /\ isMusicPlaying) =>
           /\ ChordSounding(now)
           /\ ChordSounding(now - 7500)
           /\ (now - 7500) + 8000 = now + 500

C14_Witness ==
    /\ lastOp = "playDrone"
    /\ isMusicPlaying
    /\ now >= 15000
    /\ ChordSounding(now)
    /\ ChordSounding(now - 7500)

(* C18: the callback of the drone timer starts exactly four events, in     *)
(* this order: base frequency (sine, 0.04), 1.5 x base (sine, 0.025),      *)
(* 2 x base (triangle, 0.015), noise with a 100 Hz cutoff; all of 8 s, all *)
(* on the music bus; and it runs exactly 7.5 s after the timer was set or  *)
(* last fired.                                                             *)
C18_DroneChord ==
    lastOp = "playDrone" =>
        /\ elapsed = 7500
        /\ Len(emitted) = 4
        /\ \A i \in 1..4 : emitted[i].duration = 8000 /\ emitted[i].dest = "musicGain"
        /\ emitted[1].kind = "note" /\ emitted[1].type = "sine"
        /\ emitted[1].freq = Freq(7342, 0, 0)
        /\ emitted[2].kind = "note" /\ emitted[2].type = "sine"
        /\ 2 * emitted[2].freq.hz100 = 3 * emitted[1].freq.hz100
        /\ emitted[3].kind = "note" /\ emitted[3].type = "triangle"
        /\ emitted[3].freq.hz100 = 2 * emitted[1].freq.hz100
        /\ emitted[4].kind = "noise" /\ emitted[4].cutoff = 10000
        /\ emitted[1].volume = 40 /\ emitted[2].volume = 25 /\ emitted[3].volume = 15
        /\ emitted[1].volume > emitted[2].volume
        /\ emitted[2].volume > emitted[3].volume

C18_Witness ==
    /\ lastOp = "playDrone"
    /\ elapsed = 7500
    /\ Len(emitted) = 4
    /\ emitted[4].kind = "noise"
    /\ since[ambientIntervals[1]] = now

(* C19: the callback of the melody timer runs between 3 s and 7 s after    *)
(* the timer was set by the start or last fired; the timer's period lies   *)
(* in that range; the start itself plays no melody note, so none begins    *)
(* less than 3 s after a start.                                            *)
C19_MelodyPeriod ==
    /\ lastOp = "playMelodyNote" => (elapsed >= 3000 /\ elapsed <= 7000)
    /\ \A t \in timers :
           t.kind = "melody" =>
               /\ t.period >= 3000
               /\ t.period <= 7000
               /\ now <= Due(t)
    /\ lastOp \in {"startBackgroundMusic", "initAudioContext"} =>
           \A i \in DOMAIN emitted : emitted[i].freq.octave = 0
    /\ \A v \in voices : v.src = "playMelodyNote" => v.onset >= 3000

C19_Witness ==
    /\ lastOp = "playMelodyNote"
    /\ elapsed = 6999
    /\ now >= 2 * 6999
    /\ emitted # <<>>

(* C20: the callback of the wind timer runs exactly 8 s, and the callback  *)
(* of the creak timer exactly 12 s, after its timer was set or last fired; *)
(* each starts at most one event, and only while isMusicPlaying holds: the *)
(* wind a noise of 4 to 7 s with a 300 Hz cutoff on the music bus, the     *)
(* creak a sawtooth of 0.3 s whose stop is scheduled 0.3 s after onset.    *)
C20_WindAndCreak ==
    /\ lastOp = "windTick" =>
           /\ elapsed = 8000
           /\ Len(emitted) <= 1
           /\ emitted # <<>> =>
                  /\ isMusicPlaying
                  /\ emitted[1].kind = "noise"
                  /\ emitted[1].duration >= 4000
                  /\ emitted[1].duration <= 7000
                  /\ emitted[1].cutoff = 30000
                  /\ emitted[1].dest = "musicGain"
    /\ lastOp = "creakTick" =>
           /\ elapsed = 12000
           /\ Len(emitted) <= 1
           /\ emitted # <<>> =>
                  /\ isMusicPlaying
                  /\ emitted[1].kind = "creak"
                  /\ emitted[1].type = "sawtooth"
                  /\ emitted[1].duration = 300
                  /\ emitted[1].stop = 300
                  /\ emitted[1].dest = "musicGain"
    /\ \A t \in timers, u \in timers :
           (t.kind = u.kind) => t = u

C20_Witness ==
    /\ lastOp = "creakTick"
    /\ elapsed = 12000
    /\ Len(emitted) = 1
    /\ emitted[1].stop = 300

(* C17: the gain of every note at the output, at its onset, is its peak    *)
(* gain times the gain of the bus it is connected to times the master      *)
(* gain, the two being the volumes of the config, for all volumes of the   *)
(* grid.  Gains are in thousandths, the products in units of 10^-9.        *)
C17_EffectiveGain ==
    \A i \in DOMAIN emitted :
        emitted[i].kind = "note" =>
            /\ emitted[i].volume * PathGain(emitted[i].dest, 2)
                   = emitted[i].volume * Node(emitted[i].dest).value
                                       * masterGain.value
            /\ masterGain.value = config.masterVolume
            /\ musicGain.value = config.musicVolume
            /\ sfxGain.value = config.sfxVolume
            /\ Node(emitted[i].dest) \in {musicGain, sfxGain}

C17_Witness ==
    /\ lastOp = "playClick"
    /\ config.masterVolume = 500
    /\ config.sfxVolume = 500
    /\ Len(emitted) = 1
    /\ emitted[1].volume * PathGain(emitted[1].dest, 2) = 50 * 500 * 500

----------------------------------------------------------------------------
(* C21: a melody tick that runs while the music is playing moves the       *)
(* cursor by at most 2 degrees and starts exactly one main note: a         *)
(* triangle on the music bus, its semitone offset the phrygian degree at   *)
(* the cursor, its octave 2 or 3, its duration at least 2 s.  It starts at *)
(* most one more note, the harmony: a sine on the music bus in the octave  *)
(* of the main note, 1.5 s long and so shorter than the main note, with    *)
(* gain 0.02, below the 0.03 of the main note.                             *)
C21_MelodyTick ==
    (lastOp = "playMelodyNote" /\ isMusicPlaying) =>
        /\ Cursor - drawn.before \in -2..2
        /\ Len(emitted) \in {1, 2}
        /\ emitted[1].kind = "note"
        /\ emitted[1].type = "triangle"
        /\ emitted[1].dest = "musicGain"
        /\ emitted[1].freq.hz100 = baseFreq
        /\ emitted[1].freq.semitone = phrygian[Cursor + 1]
        /\ emitted[1].freq.octave \in {2, 3}
        /\ emitted[1].duration >= 2000
        /\ emitted[1].volume = 30
        /\ Len(emitted) = 2 =>
              /\ emitted[2].kind = "note"
              /\ emitted[2].type = "sine"
              /\ emitted[2].dest = "musicGain"
              /\ emitted[2].freq.octave = emitted[1].freq.octave
              /\ emitted[2].duration = 1500
              /\ emitted[2].duration < emitted[1].duration
              /\ emitted[2].volume = 20
              /\ emitted[2].volume < emitted[1].volume

C21_Witness ==
    /\ lastOp = "playMelodyNote"
    /\ isMusicPlaying
    /\ Len(emitted) = 2
    /\ drawn.before = 4
    /\ Cursor = 6
    /\ emitted[1].freq.octave = 3

----------------------------------------------------------------------------
(* C25: stopBackgroundMusic is safe in every state and idempotent.  It     *)
(* makes no call on the device, starts no sound and does not throw; it     *)
(* leaves isMusicPlaying false and no handle recorded; every timer it      *)
(* cancels was recorded.  Called while the music is not playing (before    *)
(* the initialization, on an engine whose device is absent, or right after *)
(* another stop) it changes nothing.                                       *)
C25_StopIdempotent ==
    [][lastOp' = "stopBackgroundMusic" =>
          /\ deviceCalls' = 0
          /\ emitted' = <<>>
          /\ ~raised'
          /\ ~isMusicPlaying'
          /\ ambientIntervals' = <<>>
          /\ musicInterval' = 0
          /\ timers' \subseteq timers
          /\ \A t \in timers \ timers' : t.id \in Recorded
          /\ (~isMusicPlaying => UNCHANGED ProgVars)
          /\ (lastOp = "stopBackgroundMusic" => UNCHANGED ProgVars)]_vars

C25_Witness ==
    /\ lastOp = "stopBackgroundMusic"
    /\ audioContext = 0
    /\ warned
    /\ listeners = {}
    /\ timers = {}

----------------------------------------------------------------------------
(* C26: every start that starts the playback begins a fresh melody: it     *)
(* sets a new melody timer whose cursor is 0, and that cursor is the only  *)
(* one there is, so no position of an earlier session is carried over.     *)
(* Every live melody timer is the one of the current session, and a melody *)
(* tick moves no cursor but the current one: a timer of an earlier session *)
(* can never advance the cursor of a later one.                            *)
C26_FreshCursor ==
    [][/\ (~isMusicPlaying /\ isMusicPlaying') =>
              /\ musicInterval' # 0
              /\ musicInterval' \notin Live
              /\ DOMAIN lastNoteIndex' = {musicInterval'}
              /\ lastNoteIndex'[musicInterval'] = 0
       /\ \A t \in timers : t.kind = "melody" => t.id = musicInterval
       /\ lastOp' = "playMelodyNote" =>
              /\ musicInterval' = musicInterval
              /\ DOMAIN lastNoteIndex' = {musicInterval}]_vars

C26_Witness ==
    /\ lastOp = "startBackgroundMusic"
    /\ isMusicPlaying
    /\ musicInterval = 6
    /\ Cursor = 0

----------------------------------------------------------------------------
(* C27: within one playing session the melody period is fixed.  A timer    *)
(* keeps the period it was set with for as long as it is live; every       *)
(* melody tick comes exactly that period after the start of the session or *)
(* after the tick before it; and a melody timer with a new period appears  *)
(* only in a call that starts the music.                                   *)
C27_PeriodFixed ==
    [][/\ \A t \in timers, u \in timers' : t.id = u.id => u.period = t.period
       /\ lastOp' = "playMelodyNote" =>
              \E t \in timers : /\ t.id = musicInterval
                                /\ t.kind = "melody"
                                /\ t \in timers'
                                /\ elapsed' = t.period
       /\ (\E u \in timers' \ timers : u.kind = "melody") =>
              /\ lastOp' \in {"startBackgroundMusic", "initAudioContext"}
              /\ ~isMusicPlaying]_vars

C27_Witness ==
    /\ lastOp = "playMelodyNote"
    /\ elapsed = 6999
    /\ now = 2500 + (3 * 6999)
    /\ \E t \in timers : t.id = musicInterval /\ t.period = 6999 /\ since[t.id] = now

----------------------------------------------------------------------------
(* C23: whenever audioContext is set, the master, music and sfx gains      *)
(* exist and are connected music -> master, sfx -> master, master ->       *)
(* output, also after an initialization that failed part-way; so no call   *)
(* that passes the test of audioContext throws for a missing gain.         *)
----------------------------------------------------------------------------
(* C22: the callback of every generator tests isMusicPlaying: a tick of    *)
(* the drone, melody, wind or creak timer that runs while isMusicPlaying   *)
(* is false makes no call on the device, starts no sound and sets or       *)
(* clears no timer.                                                        *)
C22_GeneratorsGuarded ==
    [][(lastOp' \in TickOps /\ ~isMusicPlaying) =>
          /\ emitted' = <<>>
          /\ deviceCalls' = 0
          /\ timers' = timers]_vars

C23_GainChainComplete ==
    audioContext # 0 =>
        /\ masterGain # nullNode
        /\ musicGain # nullNode
        /\ sfxGain # nullNode
        /\ masterGain.out = "destination"
        /\ musicGain.out = "masterGain"
        /\ sfxGain.out = "masterGain"
        /\ ~raised

(* C24: isMusicPlaying is true exactly when the four periodic timers       *)
(* (drone, melody, wind, creak) are live and recorded, also when a         *)
(* synthesis call throws during the start; the number of live timers is    *)
(* always 0 or 4.                                                          *)
C24_FlagMirrorsTimers ==
    /\ isMusicPlaying <=> /\ Kinds = {"drone", "melody", "wind", "creak"}
                          /\ Cardinality(timers) = 4
                          /\ Live = Recorded
    /\ Cardinality(timers) \in {0, 4}

----------------------------------------------------------------------------
(* C28: in WerewolfWS, isConnected is true only while the current socket   *)
(* is open, however connect() calls interleave with the open and close     *)
(* events of the current and of replaced sockets; so send() calls the      *)
(* socket's send only on an open socket, and the close event of a replaced *)
(* socket leaves isConnected true when the current socket is open.         *)
C28_ConnectedMeansOpen ==
    /\ isConnected => (socket # 0 /\ sockets[socket] = "OPEN")
    /\ wsLast.op = "send" => wsLast.sentOn \in {"none", "OPEN"}
    /\ (wsLast.op = "onclose" /\ wsLast.on # socket /\ sockets[socket] = "OPEN")
           => isConnected

(* C29: in WerewolfWS, the close event of the current socket leaves a      *)
(* reconnect timeout of 3 s pending; at most one timeout is pending at any *)
(* time; and the connect() a reconnect timeout runs never closes a current *)
(* socket that is open.                                                    *)
C29_ReconnectKeepsOpenSocket ==
    /\ (wsLast.op = "onclose" /\ wsLast.on = socket) =>
           \E t \in timeouts : t.id = reconnectTimer /\ t.delay = 3000
    /\ Cardinality(timeouts) <= 1
    /\ wsLast.op = "reconnect" => ~wsLast.closedOpen

----------------------------------------------------------------------------
(* C30: in the replay viewer at most one autoPlayLoop is active at any     *)
(* time, whatever the clicks on the auto-play button, so that auto-play    *)
(* advances one event per 3 s at most; currentIndex stays within           *)
(* 0 .. events.length - 1 once events are loaded; and a loop that wakes at *)
(* the last event does not advance.                                        *)
C30_OneAutoPlayLoop ==
    [][/\ loops' <= 1
       /\ events' > 0 => currentIndex' \in 0..(events' - 1)
       /\ (replayLast' = "autoPlayLoop" /\ currentIndex = events - 1) =>
              currentIndex' = currentIndex]_vars

====
